---------------------------- MODULE Spec2Model ----------------------------
(***************************************************************************)
(* Order lifecycle and payment reconciliation of the M&H Distributions     *)
(* backend.  The repository holds three checkout paths:                    *)
(*   - POST /api/orders            (src/server.js, JSON-file store)        *)
(*   - POST /api/process-payment   (src/services/emailService.js, MongoDB) *)
(*   - createOrder                 (src/controllers/orderController.js)    *)
(* and two status-update paths (the PATCH route and updateOrderStatus).    *)
(* Every handler is an async function: it runs atomically from one await   *)
(* to the next, and handlers of different requests interleave at awaits.   *)
(* Money is counted in thousandths of a dollar (mills), so that a total    *)
(* with three decimals and its rounding to cents are both representable.   *)
(***************************************************************************)
EXTENDS Integers, Sequences, FiniteSets, TLC

\* ---------------------------------------------------------------- bounds
MaxReqs == 2        \* checkout requests received in one run
MaxTime == 1        \* last value of the millisecond clock
MaxPatches == 1     \* status-update requests received in one run
MsPerDay == 1       \* clock ticks per calendar day (a scaled-down day)

\* ------------------------------------------------------------ vocabulary
\* The three applications of the repository; one of them runs
Apps == {"orders", "process", "create"}

\* src/models/Order.js:35 and src/services/emailService.js:244
validStatuses ==
  {"pending", "paid", "processing", "fulfilled", "cancelled", "shipped", "delivered"}

\* Final statuses a charge call can return without throwing
GatewayStatuses == {"COMPLETED", "PENDING"}
\* Outcomes of one charge call: a returned status, or a thrown decline
GatewayOutcomes == GatewayStatuses \cup {"declined"}

\* The random suffixes Math.random().toString(36).substr(2, 6) can yield
Suffixes == {"A1B2C3", "X9Y8Z7"}

\* Request bodies handed to the checkout handlers.  total is in mills:
\* 19986 is 19.986, a total with three decimals, which no handler refuses.
ValidBody ==
  [paymentToken |-> TRUE, total |-> 19986, items |-> "some", customerInfo |-> TRUE]

Bodies ==
  { ValidBody,
    [ValidBody EXCEPT !.paymentToken = FALSE],
    [ValidBody EXCEPT !.total = 0, !.items = "empty"] }

\* A field the request body does not carry (undefined)
None == "undefined"

\* Bodies of the status-update requests: {status, trackingNumber?, notes?}
PatchBodies ==
  { [status |-> "pending",   trackingNumber |-> None,   notes |-> ""],
    [status |-> "delivered", trackingNumber |-> "TRK1", notes |-> "left at door"],
    [status |-> "refunded",  trackingNumber |-> None,   notes |-> None] }

VARIABLES
  app,             \* which application of the repository is running
  now,             \* Date.now(), in milliseconds
  reqs,            \* the checkout requests received so far, in arrival order
  last,            \* the checkout request whose handler finished last
  charges,         \* idempotency keys of the createPayment calls, in call order
  orders,          \* server.js: the in-memory order list
  file,            \* server.js: the contents of orders.json
  orderIdCounter,  \* server.js: the next numeric order id
  db,              \* the MongoDB Order collection, in insertion order
  patches,         \* number of status-update requests received
  lastPatch,       \* the last status-update request and its response
  listed           \* the listing request answered by the last step, and the
                   \* response to it; NoList after any other step

vars ==
  <<app, now, reqs, last, charges, orders, file, orderIdCounter, db,
    patches, lastPatch, listed>>

\* ---------------------------------------------------------------- helpers
\* Math.round(total * 100): dollars to cents, halves rounded towards +Infinity
MathRound(total) == (total + 5) \div 10

\* String(date.getFullYear()) + month + day of the order-number prefix
DateStamp(t) == t \div MsPerDay

Max(a, b) == IF a > b THEN a ELSE b

\* A request whose handler has run up to its first await
NewReq(body) ==
  [ body |-> body, pc |-> "start", gw |-> "none", calls |-> 0, cents |-> 0,
    stored |-> 0, recorded |-> None, writeFailed |-> FALSE,
    mailFailed |-> FALSE, resp |-> 0, doc |-> None,
    detail |-> FALSE, shown |-> FALSE, order |-> 0 ]

\* The slot of a request whose handler has finished: what is kept of it is
\* the number of order records it wrote and, when the response reported the
\* creation of an order, the identifier of that order
Finished(r) ==
  [pc |-> "done", stored |-> r.stored,
   acked |-> IF r.resp = 200 THEN r.order ELSE 0]

NoLast == [id |-> 0]

\* No listing request was answered by the step
NoList == [resp |-> 0]

\* The handler of request id ends in state r (r.resp = 0: no response sent)
Finish(id, r) ==
  /\ reqs' = [i \in 1..Max(id, Len(reqs)) |-> IF i = id THEN Finished(r) ELSE reqs[i]]
  /\ last' = [id |-> id, pc |-> "done", body |-> r.body, gw |-> r.gw,
              calls |-> r.calls,
              cents |-> r.cents, stored |-> r.stored, recorded |-> r.recorded,
              writeFailed |-> r.writeFailed, mailFailed |-> r.mailFailed,
              resp |-> r.resp, detail |-> r.detail, shown |-> r.shown]

\* The handler of request id stops at an await, in state r
Suspend(id, r) ==
  /\ reqs' = [i \in 1..Max(id, Len(reqs)) |-> IF i = id THEN r ELSE reqs[i]]
  /\ UNCHANGED last

InFlight(id, pc) == id \in 1..Len(reqs) /\ reqs[id].pc = pc

\* A gateway adapter that sends the call again, with the same key
createPayment_Retry(key) == charges' = Append(Append(charges, key), key)

\* squareClient.paymentsApi.createPayment({sourceId, idempotencyKey, amountMoney})
createPayment(key) == charges' = Append(charges, key)

\* crypto.randomUUID() and crypto.randomBytes(32): a value never drawn before
\* (the 'mock_' + Date.now() fallback of emailService.js:142 applies only to
\* a runtime without crypto.randomUUID)
randomKey == <<"random", Len(charges) + 1>>

\* The outcomes the gateway can give a charge call: a call without a source
\* token is rejected
OutcomesFor(body) ==
  IF body.paymentToken THEN GatewayOutcomes ELSE {"declined"}

\* Whether the error thrown by createPayment carries the processor's reason
\* (error.errors[0].detail) besides its message
Details(outcome) == IF outcome = "declined" THEN BOOLEAN ELSE {FALSE}

\* --------------------------------------------------------------- server.js
\* saveOrdersToFile: a write error is caught and logged, nothing is returned
saveOrdersToFile(list, writeOK) ==
  file' = IF writeOK THEN list ELSE file

\* if (!paymentToken) return res.status(400)
PostOrders_Valid(body) == body.paymentToken

\* A handler that falls back to recording the order when the charge threw
PostOrders_Proceeds_Fallback(outcome) == TRUE

\* try { await createPayment } catch { return res.status(400) }: the handler
\* goes on to build the order exactly when the call did not throw
PostOrders_Proceeds(outcome) == outcome # "declined"

\* 'order-' + Date.now()
PostOrders_Key(t) == <<"order-", t>>

\* POST /api/orders, up to the await of createPayment
PostOrders_Begin(body) ==
  /\ app = "orders"
  /\ Len(reqs) < MaxReqs
  /\ LET id == Len(reqs) + 1
         r  == NewReq(body)
     IN IF ~PostOrders_Valid(body)
          THEN /\ Finish(id, [r EXCEPT !.resp = 400])
               /\ UNCHANGED charges
          ELSE /\ createPayment(PostOrders_Key(now))
               /\ Suspend(id, [r EXCEPT !.pc = "charging", !.calls = 1,
                                        !.cents = MathRound(body.total)])
  /\ UNCHANGED <<app, now, orders, file, orderIdCounter, db, patches, lastPatch>>
  /\ listed' = NoList

\* An order record that stores the charged cents in place of the total
PostOrders_Order_Cents(body, counter, t) ==
  [ id |-> counter, orderNumber |-> t, total |-> MathRound(body.total),
    status |-> "pending", paymentStatus |-> "paid", emailSent |-> "unset",
    createdAt |-> t ]

\* The order record built after the charge
PostOrders_Order(body, counter, t) ==
  [ id |-> counter, orderNumber |-> t, total |-> body.total,
    status |-> "pending", paymentStatus |-> "paid", emailSent |-> "unset",
    createdAt |-> t ]

\* details: paymentError.errors || 'No additional details': the response
\* carries the processor's reason when the error has one
PostOrders_Details(detail) == detail

\* POST /api/orders, from the return of createPayment to the response; the
\* confirmation e-mail is started and not awaited
PostOrders_Resume(id) ==
  /\ InFlight(id, "charging")
  /\ app = "orders"
  /\ \E outcome \in OutcomesFor(reqs[id].body), writeOK \in BOOLEAN :
     \E detail \in Details(outcome) :
       LET r == [reqs[id] EXCEPT !.gw = outcome, !.detail = detail] IN
       IF ~PostOrders_Proceeds(outcome)
         THEN /\ Finish(id, [r EXCEPT !.resp = 400,
                                      !.shown = PostOrders_Details(detail)])
              /\ UNCHANGED <<orders, file, orderIdCounter>>
         ELSE /\ orders' = Append(orders, PostOrders_Order(r.body, orderIdCounter, now))
              /\ orderIdCounter' = orderIdCounter + 1
              /\ saveOrdersToFile(orders', writeOK)
              /\ Finish(id, [r EXCEPT !.stored = 1,
                                      !.order = orders'[Len(orders')].id,
                                      !.recorded = orders'[Len(orders')].total,
                                      !.writeFailed = ~writeOK,
                                      !.resp = 200])
  /\ UNCHANGED <<app, now, charges, db, patches, lastPatch>>
  /\ listed' = NoList

\* sendOrderConfirmationEmail, from the return of resend.emails.send: the
\* order object held by the list gets its emailSent annotation; the file is
\* not rewritten
sendOrderConfirmationEmail(i) ==
  /\ i \in 1..Len(orders)
  /\ orders[i].emailSent = "unset"
  /\ \E sent \in BOOLEAN :
       orders' = [orders EXCEPT ![i].emailSent = IF sent THEN "true" ELSE "false"]
  /\ UNCHANGED <<app, now, reqs, last, charges, file, orderIdCounter, db,
                 patches, lastPatch>>
  /\ listed' = NoList

\* ------------------------------------------------------ the Order model
\* orderSchema.pre('save'): MHD-<yyyymmdd>-<six random characters>
orderNumber(t, suffix) == <<"MHD-", DateStamp(t), suffix>>

\* new Order({...}) followed by the pre-save hook
NewOrder(body, t, suffix) ==
  [ orderNumber |-> orderNumber(t, suffix), amount |-> body.total,
    orderStatus |-> "paid", paymentStatus |-> "paid",
    trackingNumber |-> None, notes |-> None,
    createdAt |-> t, updatedAt |-> t ]

\* orderNumber: { unique: true }: the index refuses a second document with
\* the same order number
DuplicateKey(doc) == \E i \in 1..Len(db) : db[i].orderNumber = doc.orderNumber

\* order.save() resolves exactly when the store accepts the document.
\* storeOK stands for everything the store decides by itself: the connection,
\* and schema validation (orderNumber is required and is assigned by the
\* pre-save hook; whether mongoose validates before or after that hook is not
\* settled by this repository, and both outcomes are covered)
SaveResolves(doc, storeOK) == storeOK /\ ~DuplicateKey(doc)

\* ------------------------------- emailService.js: POST /api/process-payment
\* if (!paymentToken || !total || !items || !customerInfo) return 400
ProcessPayment_Valid(body) ==
  /\ body.paymentToken
  /\ body.total # 0
  /\ body.items # "missing"
  /\ body.customerInfo

\* The whole handler body after validation is one try block: the order is
\* built exactly when createPayment did not throw
ProcessPayment_Proceeds(outcome) == outcome # "declined"

\* up to the await of createPayment
ProcessPayment_Begin(body) ==
  /\ app = "process"
  /\ Len(reqs) < MaxReqs
  /\ LET id == Len(reqs) + 1
         r  == NewReq(body)
     IN IF ~ProcessPayment_Valid(body)
          THEN /\ Finish(id, [r EXCEPT !.resp = 400])
               /\ UNCHANGED charges
          ELSE /\ createPayment(randomKey)
               /\ Suspend(id, [r EXCEPT !.pc = "charging", !.calls = 1,
                                        !.cents = MathRound(body.total)])
  /\ UNCHANGED <<app, now, orders, file, orderIdCounter, db, patches, lastPatch>>
  /\ listed' = NoList

\* errorMessage = error.errors[0].detail || errorMessage: the response
\* carries the processor's reason when the error has one
ProcessPayment_ErrorMessage(detail) == detail

\* from the return of createPayment to the await of order.save()
ProcessPayment_Resume(id) ==
  /\ InFlight(id, "charging")
  /\ app = "process"
  /\ \E outcome \in OutcomesFor(reqs[id].body), suffix \in Suffixes :
     \E detail \in Details(outcome) :
       LET r == [reqs[id] EXCEPT !.gw = outcome, !.detail = detail] IN
       IF ~ProcessPayment_Proceeds(outcome)
         THEN Finish(id, [r EXCEPT !.resp = 400,
                                   !.shown = ProcessPayment_ErrorMessage(detail)])
         ELSE Suspend(id, [r EXCEPT !.pc = "saving",
                                    !.doc = NewOrder(r.body, now, suffix)])
  /\ UNCHANGED <<app, now, charges, orders, file, orderIdCounter, db, patches, lastPatch>>
  /\ listed' = NoList

\* from the return of order.save() to the await of the confirmation e-mail;
\* a rejected save lands in the catch block, which answers 400
ProcessPayment_Saved(id) ==
  /\ InFlight(id, "saving")
  /\ app = "process"
  /\ \E storeOK \in BOOLEAN :
       LET r == [reqs[id] EXCEPT !.doc = None] IN
       IF SaveResolves(reqs[id].doc, storeOK)
         THEN /\ db' = Append(db, reqs[id].doc)
              /\ Suspend(id, [r EXCEPT !.pc = "notifying", !.stored = 1,
                                       !.order = Len(db'),
                                       !.recorded = db'[Len(db')].amount])
         ELSE /\ UNCHANGED db
              /\ Finish(id, [r EXCEPT !.writeFailed = TRUE, !.resp = 400])
  /\ UNCHANGED <<app, now, charges, orders, file, orderIdCounter, patches, lastPatch>>
  /\ listed' = NoList

\* from the return of sendOrderConfirmationEmails (the mock of
\* emailService.js:2-11, which always resolves) to the response
ProcessPayment_Notified(id) ==
  /\ InFlight(id, "notifying")
  /\ app = "process"
  /\ Finish(id, [reqs[id] EXCEPT !.resp = 200])
  /\ UNCHANGED <<app, now, charges, orders, file, orderIdCounter, db, patches, lastPatch>>
  /\ listed' = NoList

\* ------------------------------------------- orderController.js: createOrder
\* if (paymentResult.result.payment.status === 'COMPLETED')
CreateOrder_Proceeds(outcome) == outcome = "COMPLETED"

\* up to the await of createPayment; the body is not validated
CreateOrder_Begin(body) ==
  /\ app = "create"
  /\ Len(reqs) < MaxReqs
  /\ LET id == Len(reqs) + 1
         r  == NewReq(body)
     IN /\ createPayment(randomKey)
        /\ Suspend(id, [r EXCEPT !.pc = "charging", !.calls = 1,
                                 !.cents = MathRound(body.total)])
  /\ UNCHANGED <<app, now, orders, file, orderIdCounter, db, patches, lastPatch>>
  /\ listed' = NoList

\* error: error.message: the response carries the message of the error and
\* nothing of error.errors
CreateOrder_ErrorMessage(detail) == FALSE

\* from the return of createPayment to the await of order.save(); a thrown
\* decline lands in the catch block (500); a returned status other than
\* COMPLETED skips the if and the function returns without a response
CreateOrder_Resume(id) ==
  /\ InFlight(id, "charging")
  /\ app = "create"
  /\ \E outcome \in OutcomesFor(reqs[id].body), suffix \in Suffixes :
     \E detail \in Details(outcome) :
       LET r == [reqs[id] EXCEPT !.gw = outcome, !.detail = detail] IN
       IF outcome = "declined"
         THEN Finish(id, [r EXCEPT !.resp = 500,
                                   !.shown = CreateOrder_ErrorMessage(detail)])
         ELSE IF CreateOrder_Proceeds(outcome)
           THEN Suspend(id, [r EXCEPT !.pc = "saving",
                                      !.doc = NewOrder(r.body, now, suffix)])
           ELSE Finish(id, r)
  /\ UNCHANGED <<app, now, charges, orders, file, orderIdCounter, db, patches, lastPatch>>
  /\ listed' = NoList

\* from the return of order.save() to the response.  The file imports only
\* sendEmail, so the call of sendOrderConfirmationEmails throws a
\* ReferenceError, which the catch block answers with 500
CreateOrder_Saved(id) ==
  /\ InFlight(id, "saving")
  /\ app = "create"
  /\ \E storeOK \in BOOLEAN :
       LET r == reqs[id] IN
       IF SaveResolves(reqs[id].doc, storeOK)
         THEN /\ db' = Append(db, reqs[id].doc)
              /\ Finish(id, [r EXCEPT !.stored = 1,
                                      !.order = Len(db'),
                                      !.recorded = db'[Len(db')].amount,
                                      !.mailFailed = TRUE, !.resp = 500])
         ELSE /\ UNCHANGED db
              /\ Finish(id, [r EXCEPT !.writeFailed = TRUE, !.resp = 500])
  /\ UNCHANGED <<app, now, charges, orders, file, orderIdCounter, patches, lastPatch>>
  /\ listed' = NoList

\* ------------------------------------------------------------ status update
\* A test for presence alone: value !== undefined
Supplied_Defined(value) == value # None

\* ...(trackingNumber && { trackingNumber }): a falsy value, undefined or
\* the empty string, leaves the field
Supplied(value) == value \notin {None, ""}

\* Order.findByIdAndUpdate(orderId, {orderStatus, trackingNumber?, notes?,
\* updatedAt: new Date()}, {new: true})
findByIdAndUpdate(doc, body, t) ==
  [ doc EXCEPT
      !.orderStatus = body.status,
      !.trackingNumber = IF Supplied(body.trackingNumber)
                           THEN body.trackingNumber ELSE @,
      !.notes = IF Supplied(body.notes) THEN body.notes ELSE @,
      !.updatedAt = t ]

\* A status-update request and the response it got
Patched(orderId, body, status, notified, mailFailed, storeFailed) ==
  [ orderId |-> orderId, body |-> body, resp |-> status,
    notified |-> notified, mailFailed |-> mailFailed,
    storeFailed |-> storeFailed ]

NoPatch == [orderId |-> 0]

\* A store that creates the missing document instead of returning null
Found_Upsert(orderId) == TRUE

\* if (!order) return res.status(404): findByIdAndUpdate returned a document
Found(orderId) == orderId \in 1..Len(db)

\* if (!validStatuses.includes(status)) return res.status(400)
PatchStatus_Valid(body) == body.status \in validStatuses

\* emailService.js: PATCH /api/orders/:orderId/status, the whole handler
PatchStatus(orderId, body) ==
  /\ app = "process"
  /\ patches < MaxPatches
  /\ patches' = patches + 1
  /\ \E storeOK \in BOOLEAN :
       IF ~PatchStatus_Valid(body)
         THEN /\ lastPatch' = Patched(orderId, body, 400, FALSE, FALSE, FALSE)
              /\ UNCHANGED db
         ELSE IF ~storeOK
           THEN /\ lastPatch' = Patched(orderId, body, 500, FALSE, FALSE, TRUE)
                /\ UNCHANGED db
           ELSE IF ~Found(orderId)
             THEN /\ lastPatch' = Patched(orderId, body, 404, FALSE, FALSE, FALSE)
                  /\ UNCHANGED db
             ELSE /\ db' = [db EXCEPT ![orderId] = findByIdAndUpdate(@, body, now)]
                  /\ lastPatch' = Patched(orderId, body, 200, TRUE, FALSE, FALSE)
  /\ UNCHANGED <<app, now, reqs, last, charges, orders, file, orderIdCounter>>
  /\ listed' = NoList

\* orderController.js: updateOrderStatus, the whole handler.  The status is
\* not checked; sendOrderStatusUpdateEmails is not in scope, so after the
\* update the handler throws a ReferenceError and answers 500
updateOrderStatus(orderId, body) ==
  /\ app = "create"
  /\ patches < MaxPatches
  /\ patches' = patches + 1
  /\ \E storeOK \in BOOLEAN :
       IF ~storeOK
         THEN /\ lastPatch' = Patched(orderId, body, 500, FALSE, FALSE, TRUE)
              /\ UNCHANGED db
         ELSE IF ~Found(orderId)
           THEN /\ lastPatch' = Patched(orderId, body, 404, FALSE, FALSE, FALSE)
                /\ UNCHANGED db
           ELSE /\ db' = [db EXCEPT ![orderId] = findByIdAndUpdate(@, body, now)]
                /\ lastPatch' = Patched(orderId, body, 500, FALSE, TRUE, FALSE)
  /\ UNCHANGED <<app, now, reqs, last, charges, orders, file, orderIdCounter>>
  /\ listed' = NoList

\* ----------------------------------------------------------------- restart
\* orders = JSON.parse(fs.readFileSync(ordersFilePath)): an order read from
\* the file; the e-mail callback that was to annotate it died with the process
Loaded(order) ==
  IF order.emailSent = "unset" THEN [order EXCEPT !.emailSent = None] ELSE order

\* server.js is stopped and started again: the handlers in flight are gone
\* without a response, the array is read from orders.json and the counter
\* starts from its length
Restart ==
  /\ app = "orders"
  /\ orders' = [i \in 1..Len(file) |-> Loaded(file[i])]
  /\ orderIdCounter' = Len(orders') + 1
  /\ reqs' = [i \in 1..Len(reqs) |->
                IF reqs[i].pc = "done" THEN reqs[i] ELSE Finished(reqs[i])]
  /\ UNCHANGED <<app, now, last, charges, file, db, patches, lastPatch>>
  /\ listed' = NoList

\* ----------------------------------------------------------------- listing
\* The query strings a run may send: ?status=&page=&limit=
Queries ==
  { [status |-> None,   page |-> 1, limit |-> 2],
    [status |-> None,   page |-> 2, limit |-> 1],
    [status |-> "paid", page |-> 1, limit |-> 1],
    [status |-> None,   page |-> 0, limit |-> 2],
    [status |-> None,   page |-> 1, limit |-> 0] }

Min(a, b) == IF a < b THEN a ELSE b

\* Math.ceil(total / limit)
MathCeil(total, limit) == (total + limit - 1) \div limit

\* const query = status ? { orderStatus: status } : {}
Matching(status) ==
  {i \in 1..Len(db) : Supplied(status) => db[i].orderStatus = status}

\* .sort({ createdAt: -1 }): an ordering of the matching documents by
\* decreasing createdAt; documents of equal createdAt come in any order
SortedByCreatedAt(status) ==
  {s \in [1..Cardinality(Matching(status)) -> Matching(status)] :
     /\ \A i, j \in DOMAIN s : i # j => s[i] # s[j]
     /\ \A i, j \in DOMAIN s : i < j => db[s[i]].createdAt >= db[s[j]].createdAt}

\* .limit(limit * 1).skip((page - 1) * limit); a limit of 0 is no limit
SkipLimit(s, page, limit) ==
  SubSeq(s, (page - 1) * limit + 1,
         IF limit * 1 = 0 THEN Len(s)
                          ELSE Min(Len(s), (page - 1) * limit + limit * 1))

\* The store refuses a negative skip: the query rejects
SkipAccepted(page, limit) == (page - 1) * limit >= 0

\* total / limit is a number JSON can carry: Math.ceil(total / 0) is
\* Infinity or NaN, which res.json sends as null
Finite(total, limit) == limit # 0

\* The two Mongo listings: the query that was sent and the response to it,
\* {orders, totalPages, currentPage, total}, the orders as their identifiers;
\* a totalPages of null is left out of the record
FindOrders(status, page, limit) ==
  \E storeOK \in BOOLEAN :
    IF ~storeOK \/ ~SkipAccepted(page, limit)
      THEN listed' = [status |-> status, page |-> page, limit |-> limit,
                      resp |-> 500, storeFailed |-> ~storeOK]
      ELSE \E s \in SortedByCreatedAt(status) :
             LET total == Cardinality(Matching(status))
                 sent == [status |-> status, page |-> page, limit |-> limit,
                          resp |-> 200,
                          orders |-> SkipLimit(s, page, limit),
                          currentPage |-> page,
                          total |-> total]
             IN listed' = IF Finite(total, limit)
                            THEN [f \in DOMAIN sent \cup {"totalPages"} |->
                                    IF f = "totalPages"
                                      THEN MathCeil(total, limit) ELSE sent[f]]
                            ELSE sent

\* emailService.js: GET /api/orders, the whole handler
GetOrders(status, page, limit) ==
  /\ app = "process"
  /\ FindOrders(status, page, limit)
  /\ UNCHANGED <<app, now, reqs, last, charges, orders, file, orderIdCounter,
                 db, patches, lastPatch>>

\* orderController.js: getAllOrders, the whole handler
getAllOrders(status, page, limit) ==
  /\ app = "create"
  /\ FindOrders(status, page, limit)
  /\ UNCHANGED <<app, now, reqs, last, charges, orders, file, orderIdCounter,
                 db, patches, lastPatch>>

\* server.js: GET /api/orders, the whole handler: the query is not read, the
\* response is {orders, count}, the whole array as it is stored
GetOrders_File(status, page, limit) ==
  /\ app = "orders"
  /\ listed' = [status |-> status, page |-> page, limit |-> limit,
                resp |-> 200,
                orders |-> [i \in 1..Len(orders) |-> i],
                count |-> Len(orders)]
  /\ UNCHANGED <<app, now, reqs, last, charges, orders, file, orderIdCounter,
                 db, patches, lastPatch>>

\* -------------------------------------------------------------- the system
\* The clock advances
Tick ==
  /\ now < MaxTime
  /\ now' = now + 1
  /\ UNCHANGED <<app, reqs, last, charges, orders, file, orderIdCounter, db,
                 patches, lastPatch>>
  /\ listed' = NoList

\* server.js starts with no orders.json; the collection starts empty
Init ==
  /\ app \in Apps
  /\ now = 0
  /\ reqs = <<>>
  /\ last = NoLast
  /\ charges = <<>>
  /\ orders = <<>>
  /\ file = <<>>
  /\ orderIdCounter = Len(orders) + 1
  /\ db = <<>>
  /\ patches = 0
  /\ lastPatch = NoPatch
  /\ listed = NoList

\* The checkout handlers of the running application, and the clock
Checkout ==
  \/ Tick
  \/ \E body \in Bodies : PostOrders_Begin(body)
  \/ \E id \in 1..MaxReqs : PostOrders_Resume(id)
  \/ \E i \in 1..MaxReqs : sendOrderConfirmationEmail(i)
  \/ \E body \in Bodies : ProcessPayment_Begin(body)
  \/ \E id \in 1..MaxReqs : ProcessPayment_Resume(id)
  \/ \E id \in 1..MaxReqs : ProcessPayment_Saved(id)
  \/ \E id \in 1..MaxReqs : ProcessPayment_Notified(id)
  \/ \E body \in Bodies : CreateOrder_Begin(body)
  \/ \E id \in 1..MaxReqs : CreateOrder_Resume(id)
  \/ \E id \in 1..MaxReqs : CreateOrder_Saved(id)

\* The status-update handlers
StatusUpdate ==
  \/ \E orderId \in 1..(Len(db) + 1), body \in PatchBodies : PatchStatus(orderId, body)
  \/ \E orderId \in 1..(Len(db) + 1), body \in PatchBodies : updateOrderStatus(orderId, body)

\* The listing handlers
Listing ==
  \/ \E q \in Queries : GetOrders(q.status, q.page, q.limit)
  \/ \E q \in Queries : getAllOrders(q.status, q.page, q.limit)
  \/ \E q \in Queries : GetOrders_File(q.status, q.page, q.limit)

Next == Checkout \/ StatusUpdate \/ Listing \/ Restart

\* Every handler of the repository
Spec == Init /\ [][Next]_vars

\* Documents an earlier run left in the collection: created at time 0, some
\* of them updated since
StoredOrders ==
  { [NewOrder(ValidBody, 0, "A1B2C3") EXCEPT
       !.orderStatus = st, !.trackingNumber = tn, !.notes = nt] :
      st \in {"paid", "shipped"}, tn \in {None, "TRK0"}, nt \in {None, "gift"} }

\* A Mongo server starts on a collection that holds one such document
StoredInit ==
  /\ app \in {"process", "create"}
  /\ now = 0
  /\ reqs = <<>>
  /\ last = NoLast
  /\ charges = <<>>
  /\ orders = <<>>
  /\ file = <<>>
  /\ orderIdCounter = Len(orders) + 1
  /\ db \in {<<doc>> : doc \in StoredOrders}
  /\ patches = 0
  /\ lastPatch = NoPatch
  /\ listed = NoList

\* The status-update handlers alone, on a collection that is not empty
UpdateSpec == StoredInit /\ [][Tick \/ StatusUpdate]_vars

\* The checkout handlers alone: no status update is ever requested
CheckoutSpec == Init /\ [][Checkout]_vars

\* ------------------------------------------------------------------ claims
\* The requests whose handler is suspended at an await
Suspended == {reqs[id] : id \in {i \in 1..Len(reqs) : reqs[i].pc # "done"}}

\* The requests the state tells about: the suspended ones and the one that
\* finished last
Known == Suspended \cup (IF last.id = 0 THEN {} ELSE {last})

\* The preconditions of a checkout: token present, total > 0, items non-empty
MeetsPreconditions(body) ==
  body.paymentToken /\ body.total > 0 /\ body.items = "some"

RECURSIVE SumStored(_)
SumStored(n) == IF n = 0 THEN 0 ELSE reqs[n].stored + SumStored(n - 1)

\* Every record of the store was written by one request, once
StoreCount == Len(orders) + Len(db) = SumStored(Len(reqs))

\* C1: every order a checkout persisted was written after the charge of the
\* same request was made and returned with final status COMPLETED
C1_OrderOnlyAfterSuccessfulCharge ==
  \A r \in Known : r.stored > 0 => r.calls = 1 /\ r.gw = "COMPLETED"

\* C2: the step in which a checkout handler learns that the gateway declined
\* the charge writes nothing: the order list, the order file and the
\* collection are what they were, the request has written no order, and
\* nothing is written for it later, its handler being finished
C2_DeclinePersistsNothing ==
  [][\A id \in 1..Len(reqs) :
       (reqs[id].pc = "charging" /\ reqs'[id].pc = "done" /\ last'.gw = "declined")
         => /\ orders' = orders /\ file' = file /\ db' = db
            /\ Len(orders') + Len(db') = Len(orders) + Len(db)
            /\ last'.id = id /\ last'.stored = 0]_vars

C2_Witness ==
  /\ last.id # 0 /\ last.gw = "declined"
  /\ Len(orders) + Len(db) > 0

\* C3: a checkout whose charge returned with a final status other than
\* COMPLETED persists no order and gets a failure response
C3_NonCompletedIsFailure ==
  /\ \A r \in Known : r.gw \in GatewayStatuses \ {"COMPLETED"} => r.stored = 0
  /\ last.id # 0 /\ last.gw \in GatewayStatuses \ {"COMPLETED"} => last.resp >= 400

\* C4: a checkout request without a payment token, with a total not above 0
\* or with an empty item list is answered 400, makes no charge call and
\* writes no order
C4_InvalidRequestHasNoEffect ==
  \A r \in Known : ~MeetsPreconditions(r.body) =>
    /\ r.calls = 0 /\ r.stored = 0
    /\ r.pc = "done" /\ r.resp = 400

\* C5: a checkout whose charge succeeded and whose store write failed is
\* answered 500, a status no declined checkout is answered with
C5_WriteFailureSurfaced ==
  /\ last.id # 0 /\ last.writeFailed => last.resp = 500
  /\ last.id # 0 /\ last.gw = "declined" => last.resp # 500

\* C6: a notification failure after the order was persisted (or updated)
\* leaves the operation's response a success
C6_NotificationNeverFailsOrder ==
  /\ last.id # 0 /\ last.mailFailed /\ last.stored > 0 => last.resp \in {200, 201}
  /\ lastPatch.orderId # 0 /\ lastPatch.mailFailed => lastPatch.resp = 200

\* The fulfilment chain pending -> paid -> processing -> fulfilled -> shipped
\* -> delivered, by position
Rank(status) ==
  CASE status = "pending"    -> 1
    [] status = "paid"       -> 2
    [] status = "processing" -> 3
    [] status = "fulfilled"  -> 4
    [] status = "shipped"    -> 5
    [] status = "delivered"  -> 6
    [] OTHER                 -> 0

Terminal == {"delivered", "cancelled"}

\* A change the fulfilment state machine allows: forward along the chain, or
\* from a non-terminal state to cancelled
Allowed(from, to) ==
  \/ from \notin Terminal /\ to = "cancelled"
  \/ from \notin Terminal /\ Rank(from) > 0 /\ Rank(to) > Rank(from)

\* C7: every change of an order's orderStatus follows the fulfilment state
\* machine: never backward, never out of delivered or cancelled
C7_StatusFollowsStateMachine ==
  [][\A i \in 1..Len(db) :
       db'[i].orderStatus # db[i].orderStatus
         => Allowed(db[i].orderStatus, db'[i].orderStatus)]_vars

\* C8: no two charge calls carry the same idempotency key
C8_IdempotencyKeysDistinct ==
  \A i, j \in 1..Len(charges) : i # j => charges[i] # charges[j]

\* C9: no two stored orders share an identifier or an order number
C9_OrderIdentifiersUnique ==
  /\ \A i, j \in 1..Len(orders) :
       i # j => orders[i].id # orders[j].id
                /\ orders[i].orderNumber # orders[j].orderNumber
  /\ \A i, j \in 1..Len(db) : i # j => db[i].orderNumber # db[j].orderNumber

C11_CreatedAsPaid ==
  [][/\ Len(orders') > Len(orders)
          => /\ orders'[Len(orders')].status = "paid"
             /\ orders'[Len(orders')].paymentStatus = "paid"
     /\ Len(db') > Len(db)
          => /\ db'[Len(db')].orderStatus = "paid"
             /\ db'[Len(db')].paymentStatus = "paid"]_vars

\* A step that handles a status-update request
PatchStep == patches' = patches + 1

\* C12: a status update whose status is outside the enumerated set is
\* answered 400, changes no stored order and sends no notification
C12_InvalidStatusMutatesNothing ==
  [][(PatchStep /\ lastPatch'.body.status \notin validStatuses)
       => db' = db /\ lastPatch'.resp = 400 /\ ~lastPatch'.notified]_vars

\* C14: no handler is ever suspended waiting for a notification: the response
\* is sent in the step that starts the notification
C14_NotificationNotAwaited ==
  \A r \in Suspended : r.pc # "notifying"

\* The fields of a stored document that a status update may change
Mutable == {"orderStatus", "trackingNumber", "notes", "updatedAt"}

\* C15: a stored order changes only in a status-update step, and then only
\* in orderStatus, trackingNumber, notes and updatedAt
C15_OnlyStatusUpdateMutates ==
  [][/\ \A i \in 1..Len(orders) : i <= Len(orders') /\ orders'[i] = orders[i]
     /\ \A i \in 1..Len(db) :
          /\ i <= Len(db')
          /\ \A f \in DOMAIN db[i] \ Mutable : db'[i][f] = db[i][f]
          /\ db'[i] # db[i] => PatchStep]_vars

\* C16: a charge call is made only in the step that receives a checkout
\* request, and at most one per such step: no request is charged twice
C16_AtMostOneChargePerRequest ==
  [][/\ Len(charges') <= Len(charges) + 1
     /\ Len(charges') > Len(charges) => Len(reqs') = Len(reqs) + 1
     /\ Len(charges') <= Len(reqs')]_vars

C16_Witness ==
  /\ Len(reqs) = 2 /\ Len(charges) = 2
  /\ reqs[1].pc = "done" /\ reqs[2].pc = "done"
  /\ last.gw = "declined" /\ last.calls = 1

\* A status-update step whose identifier names no stored order
UnknownId == PatchStep /\ lastPatch'.orderId \notin 1..Len(db)

\* C13 as stated: a status update whose identifier names no stored order is
\* answered 404, changes no stored order, creates none and notifies nobody
C13_UnknownIdIsNotFound ==
  [][UnknownId
       => lastPatch'.resp = 404 /\ db' = db /\ ~lastPatch'.notified]_vars

\* C13: a status update whose identifier names no stored order changes no
\* stored order, creates none and notifies nobody; it is answered 404 when
\* the status passed the handler's validation and the store answered
C13_UnknownIdMutatesNothing ==
  [][UnknownId
       => /\ db' = db /\ ~lastPatch'.notified
          /\ lastPatch'.resp = 404
               <=> /\ ~lastPatch'.storeFailed
                   /\ app = "process" => PatchStatus_Valid(lastPatch'.body)]_vars

C13_Witness ==
  /\ lastPatch.orderId = Len(db) + 1 /\ Len(db) > 0
  /\ lastPatch.resp = 404 /\ ~lastPatch.notified

\* The stored orders of the running application, by position
StoredIds == 1..(IF app = "orders" THEN Len(orders) ELSE Len(db))
StatusOf(i) == IF app = "orders" THEN orders[i].status ELSE db[i].orderStatus
CreatedAt(i) == IF app = "orders" THEN orders[i].createdAt ELSE db[i].createdAt
Matches(status) == {i \in StoredIds : status # None => StatusOf(i) = status}

\* The orderings of a set of stored orders by descending creation time
Descending(ids) ==
  {s \in [1..Cardinality(ids) -> ids] :
     /\ \A i, j \in DOMAIN s : i # j => s[i] # s[j]
     /\ \A i, j \in DOMAIN s : i < j => CreatedAt(s[i]) >= CreatedAt(s[j])}

\* A step that answers a listing request without a store error
ListStep == listed' # NoList /\ listed'.resp # 500

\* C17: a listing with page p >= 1 and size n >= 1 returns positions
\* (p-1)n+1 .. pn of the matching orders by descending creation time, with
\* total the number of matching orders and totalPages = ceil(total / n)
C17_ListReturnsPage ==
  [][(ListStep /\ listed'.page >= 1 /\ listed'.limit >= 1)
       => LET l == listed'
              matching == Matches(l.status)
              first == (l.page - 1) * l.limit + 1
              count == Cardinality(matching)
          IN /\ l.resp = 200
             /\ \E s \in Descending(matching) :
                  l.orders = [k \in 1..Max(0, Min(count, l.page * l.limit) - first + 1)
                                |-> s[first + k - 1]]
             /\ "total" \in DOMAIN l /\ l.total = count
             /\ "totalPages" \in DOMAIN l
             /\ l.totalPages * l.limit >= count
             /\ (l.totalPages - 1) * l.limit < count]_vars


\* C18: a declined checkout is answered 400, and the response carries the
\* processor's reason whenever the gateway supplied one
C18_DeclineIs400WithReason ==
  (last.id # 0 /\ last.gw = "declined")
    => last.resp = 400 /\ (last.detail => last.shown)

\* Minor units (cents) as mills
CentsInMills(cents) == cents * 10

\* C19: the amount recorded on a persisted order, in minor units, is the
\* number of cents sent in the charge call
C19_RecordedEqualsCharged ==
  \A r \in Known : r.stored > 0 => r.recorded = CentsInMills(r.cents)

\* The identifiers of the orders a listing reads from
StoredKeys ==
  IF app = "orders" THEN {orders[k].id : k \in 1..Len(orders)} ELSE 1..Len(db)

\* C20: an order whose creation was reported to the caller stays in the
\* store the listings read from, across restarts too
C20_AcknowledgedOrdersStay ==
  \A i \in 1..Len(reqs) :
    (reqs[i].pc = "done" /\ reqs[i].acked # 0) => reqs[i].acked \in StoredKeys

\* const { status, page = 1, limit = 10 } = req.query
DefaultPage == 1
DefaultLimit == 10

\* A step in which a Mongo listing answers a query whose page or limit is
\* below 1, the store being available
MalformedListStep ==
  /\ app # "orders"
  /\ listed' # NoList
  /\ listed'.page < 1 \/ listed'.limit < 1
  /\ listed'.resp = 500 => ~listed'.storeFailed

\* C21: a listing whose page or limit is below 1 is answered as the listing
\* of page 1 with limit 10: a successful page with a finite totalPages
C21_MalformedPaginationClamped ==
  [][MalformedListStep
       => LET l == listed'
              matching == Matches(l.status)
              count == Cardinality(matching)
          IN /\ l.resp = 200
             /\ l.currentPage = DefaultPage
             /\ \E s \in Descending(matching) :
                  l.orders = SubSeq(s, 1, Min(count, DefaultLimit))
             /\ l.total = count
             /\ "totalPages" \in DOMAIN l
             /\ l.totalPages = MathCeil(count, DefaultLimit)]_vars

\* A status-update step that found the order and wrote it
UpdateApplied == PatchStep /\ (lastPatch'.resp = 200 \/ lastPatch'.mailFailed)

\* C22 as stated: a successful update sets orderStatus, sets trackingNumber
\* and notes exactly when the request carries them, and refreshes updatedAt
C22_PartialMerge ==
  [][UpdateApplied
       => LET i == lastPatch'.orderId
              body == lastPatch'.body
          IN /\ db'[i].orderStatus = body.status
             /\ db'[i].trackingNumber =
                  IF body.trackingNumber # None THEN body.trackingNumber
                                                ELSE db[i].trackingNumber
             /\ db'[i].notes =
                  IF body.notes # None THEN body.notes ELSE db[i].notes
             /\ db'[i].updatedAt = now]_vars

\* C22: a successful update sets orderStatus, sets trackingNumber and notes
\* exactly when the request carries a non-empty value for them, keeps them
\* otherwise, refreshes updatedAt and changes nothing else
C22_PartialMergeOfNonEmpty ==
  [][UpdateApplied
       => LET i == lastPatch'.orderId
              body == lastPatch'.body
          IN /\ db'[i].orderStatus = body.status
             /\ db'[i].trackingNumber =
                  IF body.trackingNumber \in {None, ""} THEN db[i].trackingNumber
                                                       ELSE body.trackingNumber
             /\ db'[i].notes =
                  IF body.notes \in {None, ""} THEN db[i].notes ELSE body.notes
             /\ db'[i].updatedAt = now
             /\ \A f \in DOMAIN db[i] \ Mutable : db'[i][f] = db[i][f]
             /\ \A j \in 1..Len(db) : j # i => db'[j] = db[j]
             /\ Len(db') = Len(db)]_vars

C22_Witness ==
  /\ lastPatch.orderId = 1 /\ lastPatch.resp = 200
  /\ lastPatch.body.notes = "" /\ lastPatch.body.trackingNumber = None
  /\ db[1].notes = "gift" /\ db[1].trackingNumber = "TRK0"
  /\ db[1].orderStatus = "pending" /\ db[1].updatedAt = 1

\* C23: a checkout handler that has run to its end has sent a response,
\* whatever the gateway returned or threw
C23_HandlerEndsWithResponse ==
  last.id # 0 => last.pc = "done" /\ last.resp # 0
=============================================================================
